---- MODULE Spec2Model ----
(***************************************************************************)
(* Model of vscode-neovim-filter: NeovimClient.execute and                 *)
(* NeovimClient.executeWithSelection (src/src/neovim/client.ts) driving an *)
(* embedded Neovim over RPC, and the runExCommand command handler          *)
(* (src/src/commands/runExCommand.ts) that guards them with isExecuting.   *)
(*                                                                         *)
(* A text line is a sequence of characters; positions are 0-indexed as in  *)
(* the TypeScript code, so line k of a TLA+ sequence s is s[k + 1].        *)
(***************************************************************************)
EXTENDS Integers, Sequences, FiniteSets, TLC

\* ------------------------------------------------------------------------
\* Bounds of the model
\* ------------------------------------------------------------------------
MaxLines == 2
MaxCursors == 2
MaxSelectionLines == 4
MaxInvocations == 2
MaxTextLen == 2

\* ------------------------------------------------------------------------
\* Input domains
\* ------------------------------------------------------------------------
\* a line is empty or holds the text "x" that the substitution matches
Lines == {<<>>, <<"x">>}
Contents == UNION {[1..n -> Lines] : n \in 0..MaxLines}
\* columns: the start of a line and a column beyond the end of every line
Cols == {0, 2}
\* cursor lines reach one past the longest content
Positions == [line : 0..MaxLines, col : Cols]
CursorLists == UNION {[1..n -> Positions] : n \in 0..MaxCursors}
\* executeWithSelection sets its extmarks with the code of execute; it is run
\* with no cursor or one
SelectionCursorLists == {cs \in CursorLists : Len(cs) <= 1}
\* the ex commands: one that changes nothing, :d (delete), :s/x/y/ and :g/x/d
Commands == {"noop", "d", "s", "g"}
\* executeWithSelection is run on contents long enough for a selection that
\* starts and ends inside the text
SelectionContents == UNION {[1..n -> Lines] : n \in 0..MaxSelectionLines}
Selections == {r \in [startLine : 0..(MaxSelectionLines - 1),
                      endLine : 0..(MaxSelectionLines - 1)] :
                 r.startLine <= r.endLine}
NoSelection == [startLine |-> -1, endLine |-> -1]

Min(a, b) == IF a <= b THEN a ELSE b

\* ------------------------------------------------------------------------
\* The engine (embedded Neovim) as seen through the RPC calls of client.ts
\* ------------------------------------------------------------------------
EmptyBuffer == << <<>> >>

\* buffer.setLines(content, {start: 0, end: -1}): a buffer never has zero lines
EngineSetLines(c) == IF c = <<>> THEN EmptyBuffer ELSE c

\* nvim_buf_set_extmark validates the position against the buffer
EngineExtmarkValid(b, line, col) ==
    /\ line >= 0
    /\ line < Len(b)
    /\ col >= 0
    /\ col <= Len(b[line + 1])

\* nvim_win_set_cursor takes [row, col] with an integer row inside the buffer;
\* <<>> stands for the array [NaN, undefined], which is refused
EngineCursorValid(b, at) == Len(at) = 2 /\ at[1] >= 1 /\ at[1] <= Len(b)

\* the lines [from, to] (1-indexed, inclusive) a command addresses
EngineRangeValid(b, from, to) == from >= 1 /\ from <= to /\ to <= Len(b)

HasX(l) == \E k \in 1..Len(l) : l[k] = "x"
FirstX(l) == CHOOSE k \in 1..Len(l) : l[k] = "x" /\ \A j \in 1..(k - 1) : l[j] # "x"
Subst(l) == IF HasX(l) THEN [l EXCEPT ![FirstX(l)] = "y"] ELSE l

\* does the engine accept the command on lines [from, to]?  :s without a
\* match is an engine error, an invalid range is an engine error
EngineAccepts(b, cmd, from, to) ==
    /\ EngineRangeValid(b, from, to)
    /\ cmd = "s" => \E k \in from..to : HasX(b[k])

\* the engine reads "<n>mark <" and "<n>mark >": the line n the text names
EngineMarkLine(text, name) ==
    LET ns == {n \in 0..(MaxSelectionLines + 1) : text = ToString(n) \o "mark " \o name}
    IN  IF ns = {} THEN 0 ELSE CHOOSE n \in ns : TRUE

\* the engine reads a command text: an optional range '<,'> and the command
EngineRanged(text) == \E c \in Commands : text = "'<,'>" \o c
EngineCommand(text) ==
    IF EngineRanged(text) THEN CHOOSE c \in Commands : text = "'<,'>" \o c ELSE text

\* the lines a command without a range addresses: :g the whole buffer, the
\* others the cursor line
EngineDefaultRange(b, cmd, row) == IF cmd = "g" THEN <<1, Len(b)>> ELSE <<row, row>>

\* the lines [from, to] the command text addresses, with the cursor on row and
\* the marks '< and '> at vm
EngineTarget(b, text, row, vm) ==
    IF EngineRanged(text) THEN vm ELSE EngineDefaultRange(b, EngineCommand(text), row)

\* the lines (1-indexed) the command deletes: :d its range, :g/x/d the lines
\* of its range that hold an x
EngineDeleted(b, cmd, from, to) ==
    IF cmd = "d" THEN from..to
    ELSE IF cmd = "g" THEN {k \in from..to : HasX(b[k])}
    ELSE {}

RECURSIVE KeepLines(_, _, _)
\* the lines of b, numbered from k, that are not in del
KeepLines(b, k, del) ==
    IF b = <<>> THEN <<>>
    ELSE (IF k \in del THEN <<>> ELSE <<Head(b)>>) \o KeepLines(Tail(b), k + 1, del)

\* the buffer after the command ran on lines [from, to]
EngineBuffer(b, cmd, from, to) ==
    IF cmd = "s"
    THEN [k \in 1..Len(b) |-> IF k \in from..to THEN Subst(b[k]) ELSE b[k]]
    ELSE LET r == KeepLines(b, 1, EngineDeleted(b, cmd, from, to))
         IN  IF r = <<>> THEN EmptyBuffer ELSE r

\* an extmark after the command: a mark on a deleted line is orphaned (<<>>),
\* a mark below deleted lines moves up with its text
EngineMark(m, del) ==
    IF m = <<>> THEN m
    ELSE IF m[1] + 1 \in del THEN <<>>
    ELSE <<m[1] - Cardinality({k \in del : k < m[1] + 1}), m[2]>>

EngineMarks(ms, b, cmd, from, to) ==
    [k \in 1..Len(ms) |-> EngineMark(ms[k], EngineDeleted(b, cmd, from, to))]

\* the engine's cursor row after the command
EngineRow(b, cmd, from, to, row) ==
    LET del == EngineDeleted(b, cmd, from, to)
        first == CHOOSE k \in del : \A j \in del : k <= j
    IN  IF del = {} THEN row ELSE Min(first, Len(EngineBuffer(b, cmd, from, to)))

\* ------------------------------------------------------------------------
\* State
\* ------------------------------------------------------------------------
VARIABLES
    nvimPath,         \* NeovimClient.nvimPath: "null" or the cached path
    pc,               \* position in the running call of execute / executeWithSelection
    op,               \* which of the two methods is running
    content,          \* argument content: string[]
    command,          \* argument command
    cursorPositions,  \* argument cursorPositions: Position[]
    selection,        \* argument selection of executeWithSelection
    proc,             \* local proc: "null", "alive" or "killed"
    nvim,             \* local nvim: TRUE once attach returned a client
    running,          \* number of engine subprocesses alive
    buf,              \* engine: buffer lines
    marks,            \* engine: extmark id -> <<line, col>>, or <<>> when orphaned
    cur,              \* engine: window cursor row (1-indexed)
    vmark,            \* engine: the marks '< and '> (1-indexed lines, 0 = unset)
    markIds,          \* local markIds
    idx,              \* index of the running for-loop
    extmarkPos,       \* local extmarkPos of the per-cursor loop
    lines,            \* local lines
    newPositions,     \* local newPositions
    outcome,          \* what the call returned or threw
    trace,            \* the RPC requests issued by the call, in order
    isExecuting,      \* runExCommand.ts: module flag isExecuting
    inv,              \* runExCommand invocations: id -> position in runExCommand
    got,              \* invocation -> what its call of execute settled with
    document,         \* the lines of editor.document
    selections,       \* editor.selections, each Selection(line, col, line, col)
    history,          \* the command history kept in globalState
    lastAdded,        \* the command the last resolved addToHistory was given
    reAdds,           \* CommandHistory on its own: calls that re-added a command
    lastResult,       \* the result of execute the last settled editor.edit was given
    mpc,              \* markers of one cursor: position in the call
    mline,            \* markers of one cursor: the engine's line of text
    extmarks,         \* markers of one cursor: the engine's extmarks on that line
    lastInsert,       \* markers of one cursor: where the last command inserted text
    reported,         \* markers of one cursor: the column reported for the cursor
    editorSelection,  \* one element sel of editor.selections: anchor and active
    info              \* the CursorInfo runExCommand built for sel, or NoCursorInfo

inputVars == <<op, content, command, cursorPositions, selection>>
engineVars == <<buf, marks, cur, vmark>>
localVars == <<markIds, idx, extmarkPos, lines, newPositions>>
procVars == <<proc, nvim, running>>
editorVars == <<document, selections, history, lastAdded, lastResult>>
runVars == <<isExecuting, inv, got, editorVars>>
clientVars == <<nvimPath, pc, inputVars, procVars, engineVars, localVars, outcome, trace>>
markerVars == <<mpc, mline, extmarks, lastInsert, reported>>
cursorVars == <<editorSelection, info>>
vars == <<clientVars, runVars, markerVars, cursorVars, reAdds>>

NoOutcome == [kind |-> "none"]
Ev(rpc, a, b, status) == [rpc |-> rpc, a |-> a, b |-> b, status |-> status]

\* ------------------------------------------------------------------------
\* Errors (src/src/utils/errors.ts)
\* ------------------------------------------------------------------------
NeovimNotFoundError ==
    [name |-> "NeovimNotFoundError", command |-> "", message |-> "Neovim not found"]
NeovimConnectionError(details) ==
    [name |-> "NeovimConnectionError", command |-> "", message |-> details]
ExCommandError(cmd, vimError) ==
    [name |-> "ExCommandError", command |-> cmd, message |-> vimError]
\* an error raised by the RPC library: I/O failure or an error the engine reports
RpcError(status) ==
    [name |-> "Error", command |-> "",
     message |-> IF status = "transport" THEN "EPIPE" ELSE "E: engine error"]

\* ------------------------------------------------------------------------
\* Pure pieces of execute
\* ------------------------------------------------------------------------
\* content[k] || "" : an index outside the array reads undefined
LineOrEmpty(c, k) == IF k >= 0 /\ k < Len(c) THEN c[k + 1] ELSE <<>>

\* clampedLine without the clamp
clampedLine_Unclamped(pos, c) == pos.line
clampedLine(pos, c) == Min(pos.line, Len(c) - 1)
clampedCol(pos, c) == Min(pos.col, Len(LineOrEmpty(c, clampedLine(pos, c))))

\* [extmarkPos[0] + 1, extmarkPos[1]] : an empty array gives [NaN, undefined],
\* written <<>>
\* cursorArg that always names the first line
cursorArg_FirstLine(p) == IF Len(p) = 2 THEN <<1, p[2]>> ELSE <<>>
\* cursorArg without the translation to a 1-indexed line
cursorArg_ZeroIndexed(p) == IF Len(p) = 2 THEN <<p[1], p[2]>> ELSE <<>>
cursorArg(p) == IF Len(p) = 2 THEN <<p[1] + 1, p[2]>> ELSE <<>>

\* result.length === 2 ? {line, col} : null
Null == [null |-> TRUE]
toPosition(result) ==
    IF Len(result) = 2 THEN [line |-> result[1], col |-> result[2]] ELSE Null

\* markCommand with the 0-indexed line
markCommand_ZeroIndexed(line, name) == ToString(line) \o "mark " \o name
markCommand(line, name) == ToString(line + 1) \o "mark " \o name
rangeCommand(cmd) == "'<,'>" \o cmd

\* catch (err) of execute: NeovimNotFoundError and ExCommandError pass, the
\* rest becomes NeovimConnectionError
catchClause(err) ==
    IF err.name \in {"NeovimNotFoundError", "ExCommandError"}
    THEN err
    ELSE NeovimConnectionError(err.message)

\* the kill moved inside if (nvim) { ... }
finallyKill_OnlyIfAttached(p, n) == IF n /\ p = "alive" THEN "killed" ELSE p
\* finally: if (proc) proc.kill()
finallyKill(p, n) == IF p = "alive" THEN "killed" ELSE p

\* a finally block without the graceful quit
finallyQuit_Never(n, throws) == <<>>
\* finally: if (nvim) { try { nvim.quit() } catch {} }
finallyQuit(n, throws) ==
    IF n THEN <<Ev("quit", 0, 0, IF throws THEN "transport" ELSE "ok")>> ELSE <<>>

\* the finally block, run after the events tr of the try block
Finally(tr) ==
    \E throws \in (IF nvim THEN BOOLEAN ELSE {FALSE}) :
        /\ proc' = finallyKill(proc, nvim)
        /\ running' = IF proc = "alive" /\ proc' = "killed" THEN running - 1 ELSE running
        /\ trace' = tr \o finallyQuit(nvim, throws)
                       \o (IF proc = "alive" /\ proc' = "killed"
                           THEN <<Ev("kill", 0, 0, "ok")>> ELSE <<>>)
        /\ nvim' = nvim
        /\ buf' = EmptyBuffer
        /\ marks' = <<>>
        /\ cur' = 1
        /\ vmark' = <<0, 0>>

\* an exception leaves the try block after the request ev
Throw(err, ev) ==
    /\ outcome' = [kind |-> "error", error |-> catchClause(err)]
    /\ pc' = "done"
    /\ Finally(Append(trace, ev))
    /\ UNCHANGED <<nvimPath, inputVars, localVars>>

\* the request ev succeeded; the call goes on at next
Step(ev, next) ==
    /\ trace' = Append(trace, ev)
    /\ pc' = next
    /\ UNCHANGED <<nvimPath, inputVars, outcome>>


\* ------------------------------------------------------------------------
\* NeovimClient.execute / executeWithSelection, one action per await
\* ------------------------------------------------------------------------
\* findNeovimPath that falls back to "nvim" when findNvim has no match
findNeovimPath_Default(cached, found) == IF cached # "null" THEN cached ELSE "nvim"
\* findNeovimPath: the cached path, or the first match of findNvim, or
\* throw new NeovimNotFoundError() when findNvim has no match
findNeovimPath(cached, found) ==
    IF cached # "null" THEN cached ELSE IF found THEN "nvim" ELSE "throw"

\* findNeovimPath, then the entry of the try block
Enter(o, c, cmd, sel, cs) ==
    /\ pc = "idle"
    /\ op' = o
    /\ content' = c
    /\ command' = cmd
    /\ selection' = sel
    /\ cursorPositions' = cs
    /\ trace' = <<>>
    /\ \E found \in (IF nvimPath = "null" THEN BOOLEAN ELSE {TRUE}) :
        IF findNeovimPath(nvimPath, found) # "throw"
        THEN /\ nvimPath' = IF found THEN findNeovimPath(nvimPath, found) ELSE nvimPath
             /\ pc' = "spawn"
             /\ outcome' = NoOutcome
        ELSE /\ nvimPath' = nvimPath
             /\ pc' = "done"
             /\ outcome' = [kind |-> "error", error |-> NeovimNotFoundError]
    /\ UNCHANGED <<procVars, engineVars, localVars>>

execute ==
    /\ pc = "idle"
    /\ \E c \in Contents, cmd \in Commands, cs \in CursorLists :
        Enter("execute", c, cmd, NoSelection, cs)

executeWithSelection ==
    /\ pc = "idle"
    /\ \E c \in SelectionContents, cmd \in Commands, sel \in Selections,
          cs \in SelectionCursorLists :
        Enter("executeWithSelection", c, cmd, sel, cs)

\* proc = spawn(nvimPath, ["--embed", "--headless", "--clean"])
Spawn ==
    /\ pc = "spawn"
    /\ \E ok \in BOOLEAN :
        IF ok
        THEN /\ proc' = "alive"
             /\ running' = running + 1
             /\ Step(Ev("spawn", 0, 0, "ok"), "attach")
             /\ UNCHANGED <<nvim, engineVars, localVars>>
        ELSE Throw(RpcError("transport"), Ev("spawn", 0, 0, "transport"))

\* nvim = attach({ proc })
Attach ==
    /\ pc = "attach"
    /\ \E ok \in BOOLEAN :
        IF ok
        THEN /\ nvim' = TRUE
             /\ Step(Ev("attach", 0, 0, "ok"), "buffer")
             /\ UNCHANGED <<proc, running, engineVars, localVars>>
        ELSE Throw(RpcError("transport"), Ev("attach", 0, 0, "transport"))

\* const buffer = await nvim.buffer
GetBuffer ==
    /\ pc = "buffer"
    /\ \E ok \in BOOLEAN :
        IF ok
        THEN /\ Step(Ev("nvim_get_current_buf", 0, 0, "ok"), "set_lines")
             /\ UNCHANGED <<procVars, engineVars, localVars>>
        ELSE Throw(RpcError("transport"), Ev("nvim_get_current_buf", 0, 0, "transport"))

\* await buffer.setLines(content, { start: 0, end: -1, strictIndexing: false })
SetLines ==
    /\ pc = "set_lines"
    /\ \E ok \in BOOLEAN :
        IF ok
        THEN /\ buf' = EngineSetLines(content)
             /\ Step(Ev("nvim_buf_set_lines", 0, 0, "ok"), "namespace")
             /\ UNCHANGED <<procVars, marks, cur, vmark, localVars>>
        ELSE Throw(RpcError("transport"), Ev("nvim_buf_set_lines", 0, 0, "transport"))

\* execute reading the buffer back right after the extmarks are set
AfterExtmarks_ReadFirst == IF op = "execute" THEN "get_lines" ELSE "mark_lt"
\* where the call goes once every extmark is set
AfterExtmarks == IF op = "execute" THEN "loop" ELSE "mark_lt"
\* where execute goes once the per-cursor loop is over
AfterLoop == "get_lines"
\* where the call goes once the buffer is read back
AfterGetLines(ids) == IF ids = <<>> THEN "return" ELSE "read_extmark"

\* const namespaceId = await nvim.call("nvim_create_namespace", [...])
CreateNamespace ==
    /\ pc = "namespace"
    /\ \E ok \in BOOLEAN :
        IF ok
        THEN /\ idx' = 1
             /\ markIds' = <<>>
             /\ Step(Ev("nvim_create_namespace", 0, 0, "ok"),
                     IF cursorPositions = <<>>
                     THEN (IF AfterExtmarks = "loop" THEN AfterLoop ELSE AfterExtmarks)
                     ELSE "set_extmark")
             /\ UNCHANGED <<procVars, engineVars, extmarkPos, lines, newPositions>>
        ELSE Throw(RpcError("transport"), Ev("nvim_create_namespace", 0, 0, "transport"))

\* for (const pos of cursorPositions): clamp, nvim_buf_set_extmark, markIds.push(id)
SetExtmark ==
    /\ pc = "set_extmark"
    /\ LET pos == cursorPositions[idx]
           l == clampedLine(pos, content)
           c == clampedCol(pos, content)
       IN \E fault \in BOOLEAN :
            LET st == IF fault THEN "transport"
                      ELSE IF EngineExtmarkValid(buf, l, c) THEN "ok" ELSE "rejected"
                ev == Ev("nvim_buf_set_extmark", l, c, st)
            IN  IF st = "ok"
                THEN /\ marks' = Append(marks, <<l, c>>)
                     /\ markIds' = Append(markIds, Len(marks) + 1)
                     /\ idx' = IF idx = Len(cursorPositions) THEN 1 ELSE idx + 1
                     /\ Step(ev, IF idx = Len(cursorPositions)
                                 THEN AfterExtmarks ELSE "set_extmark")
                     /\ UNCHANGED <<procVars, buf, cur, vmark, extmarkPos, lines, newPositions>>
                ELSE Throw(RpcError(st), ev)

\* per-cursor loop: extmarkPos = await nvim.call("nvim_buf_get_extmark_by_id", ...)
LoopGetExtmark ==
    /\ pc = "loop"
    /\ \E ok \in BOOLEAN :
        IF ok
        THEN /\ extmarkPos' = marks[markIds[idx]]
             /\ Step(Ev("nvim_buf_get_extmark_by_id", markIds[idx], marks[markIds[idx]], "ok"),
                     "set_cursor")
             /\ UNCHANGED <<procVars, engineVars, markIds, idx, lines, newPositions>>
        ELSE Throw(RpcError("transport"),
                   Ev("nvim_buf_get_extmark_by_id", markIds[idx], <<>>, "transport"))

\* per-cursor loop: await nvim.call("nvim_win_set_cursor", [0, [row + 1, col]])
LoopSetCursor ==
    /\ pc = "set_cursor"
    /\ \E fault \in BOOLEAN :
        LET st == IF fault THEN "transport"
                  ELSE IF EngineCursorValid(buf, cursorArg(extmarkPos)) THEN "ok"
                  ELSE "rejected"
            ev == Ev("nvim_win_set_cursor", cursorArg(extmarkPos), 0, st)
        IN  IF st = "ok"
            THEN /\ cur' = cursorArg(extmarkPos)[1]
                 /\ Step(ev, "command")
                 /\ UNCHANGED <<procVars, buf, marks, vmark, localVars>>
            ELSE Throw(RpcError(st), ev)

\* ExCommandError with its two arguments swapped
commandError_Swapped(text, st) == ExCommandError(RpcError(st).message, text)
\* the error a failed nvim.command(text) raises inside try { } catch (err)
commandError(text, st) == ExCommandError(text, RpcError(st).message)

\* the engine runs the command text: the event with the lines it addressed,
\* and whether it accepted the text
EngineRun(text, fault) ==
    LET t == EngineTarget(buf, text, cur, vmark)
    IN  Ev("nvim_command", text, t,
           IF fault THEN "transport"
           ELSE IF EngineAccepts(buf, EngineCommand(text), t[1], t[2]) THEN "ok"
           ELSE "rejected")

\* the engine's state after it ran the accepted command text
EngineApply(text) ==
    LET t == EngineTarget(buf, text, cur, vmark)
        c == EngineCommand(text)
    IN  /\ buf' = EngineBuffer(buf, c, t[1], t[2])
        /\ marks' = EngineMarks(marks, buf, c, t[1], t[2])
        /\ cur' = EngineRow(buf, c, t[1], t[2], cur)
        /\ vmark' = vmark

\* the loop left after its first pass
loopDone_AfterFirst(i, ids) == TRUE
\* for (let i = 0; i < markIds.length; i++): the pass of cursor i was the last
loopDone(i, ids) == i = Len(ids)

\* per-cursor loop: try { await nvim.command(command) } catch { throw ExCommandError }
LoopCommand ==
    /\ pc = "command"
    /\ \E fault \in BOOLEAN :
        LET ev == EngineRun(command, fault)
        IN  IF ev.status = "ok"
            THEN /\ EngineApply(command)
                 /\ idx' = IF loopDone(idx, markIds) THEN 1 ELSE idx + 1
                 /\ Step(ev, IF loopDone(idx, markIds) THEN AfterLoop ELSE "loop")
                 /\ UNCHANGED <<procVars, markIds, extmarkPos, lines, newPositions>>
            ELSE Throw(commandError(command, ev.status), ev)

\* the engine sets the mark the text names, if that line is in the buffer
EngineMarkRun(text, name, fault) ==
    LET at == EngineMarkLine(text, name)
    IN  Ev("nvim_command", text, <<at, at>>,
           IF fault THEN "transport"
           ELSE IF EngineRangeValid(buf, at, at) THEN "ok" ELSE "rejected")

\* executeWithSelection: await nvim.command(`${selection.startLine + 1}mark <`)
MarkLt ==
    /\ pc = "mark_lt"
    /\ \E fault \in BOOLEAN :
        LET ev == EngineMarkRun(markCommand(selection.startLine, "<"), "<", fault)
        IN  IF ev.status = "ok"
            THEN /\ vmark' = <<ev.b[1], vmark[2]>>
                 /\ Step(ev, "mark_gt")
                 /\ UNCHANGED <<procVars, buf, marks, cur, localVars>>
            ELSE Throw(RpcError(ev.status), ev)

\* executeWithSelection: await nvim.command(`${selection.endLine + 1}mark >`)
MarkGt ==
    /\ pc = "mark_gt"
    /\ \E fault \in BOOLEAN :
        LET ev == EngineMarkRun(markCommand(selection.endLine, ">"), ">", fault)
        IN  IF ev.status = "ok"
            THEN /\ vmark' = <<vmark[1], ev.b[1]>>
                 /\ Step(ev, "range_command")
                 /\ UNCHANGED <<procVars, buf, marks, cur, localVars>>
            ELSE Throw(RpcError(ev.status), ev)

\* executeWithSelection: try { await nvim.command(rangeCommand) } catch { ... }
RangeCommand ==
    /\ pc = "range_command"
    /\ \E fault \in BOOLEAN :
        LET ev == EngineRun(rangeCommand(command), fault)
        IN  IF ev.status = "ok"
            THEN /\ EngineApply(rangeCommand(command))
                 /\ Step(ev, "get_lines")
                 /\ UNCHANGED <<procVars, localVars>>
            ELSE Throw(commandError(rangeCommand(command), ev.status), ev)

\* const lines = await buffer.getLines({ start: 0, end: -1, strictIndexing: false })
GetLines ==
    /\ pc = "get_lines"
    /\ \E ok \in BOOLEAN :
        IF ok
        THEN /\ lines' = buf
             /\ newPositions' = <<>>
             /\ idx' = 1
             /\ Step(Ev("nvim_buf_get_lines", 0, 0, "ok"), AfterGetLines(markIds))
             /\ UNCHANGED <<procVars, engineVars, markIds, extmarkPos>>
        ELSE Throw(RpcError("transport"), Ev("nvim_buf_get_lines", 0, 0, "transport"))

\* a read-back loop that pushes nothing for an extmark it cannot resolve
pushPosition_SkipsNull(ps, ok, result) ==
    IF ok /\ Len(result) = 2 THEN Append(ps, toPosition(result)) ELSE ps
\* newPositions.push(...) of the read-back loop; an RPC error pushes null
pushPosition(ps, ok, result) == Append(ps, IF ok THEN toPosition(result) ELSE Null)

\* for (const id of markIds): try { nvim_buf_get_extmark_by_id } catch { push(null) }
ReadExtmark ==
    /\ pc = "read_extmark"
    /\ \E ok \in BOOLEAN :
        /\ newPositions' = pushPosition(newPositions, ok, marks[markIds[idx]])
        /\ idx' = idx + 1
        /\ Step(Ev("nvim_buf_get_extmark_by_id", markIds[idx],
                   IF ok THEN marks[markIds[idx]] ELSE <<>>,
                   IF ok THEN "ok" ELSE "transport"),
                IF idx = Len(markIds) THEN "return" ELSE "read_extmark")
        /\ UNCHANGED <<procVars, engineVars, markIds, extmarkPos, lines>>

\* return { lines, cursorPositions: newPositions }, then the finally block
Return ==
    /\ pc = "return"
    /\ outcome' = [kind |-> "result", lines |-> lines, cursorPositions |-> newPositions]
    /\ pc' = "done"
    /\ Finally(trace)
    /\ UNCHANGED <<nvimPath, inputVars, localVars>>

\* the caller has the result or the error; the locals of the call are gone
Settle ==
    /\ pc = "done"
    /\ pc' = "idle"
    /\ proc' = "null"
    /\ nvim' = FALSE
    /\ outcome' = NoOutcome
    /\ trace' = <<>>
    /\ op' = "none"
    /\ content' = <<>>
    /\ command' = ""
    /\ cursorPositions' = <<>>
    /\ selection' = NoSelection
    /\ markIds' = <<>>
    /\ idx' = 1
    /\ extmarkPos' = <<>>
    /\ lines' = <<>>
    /\ newPositions' = <<>>
    /\ UNCHANGED <<nvimPath, running, engineVars>>

ClientInit ==
    /\ nvimPath = "null"
    /\ pc = "idle"
    /\ op = "none"
    /\ content = <<>>
    /\ command = ""
    /\ cursorPositions = <<>>
    /\ selection = NoSelection
    /\ proc = "null"
    /\ nvim = FALSE
    /\ running = 0
    /\ buf = EmptyBuffer
    /\ marks = <<>>
    /\ cur = 1
    /\ vmark = <<0, 0>>
    /\ markIds = <<>>
    /\ idx = 1
    /\ extmarkPos = <<>>
    /\ lines = <<>>
    /\ newPositions = <<>>
    /\ outcome = NoOutcome
    /\ trace = <<>>

\* ------------------------------------------------------------------------
\* runExCommand (src/src/commands/runExCommand.ts), one action per await.
\* inv[i] is where invocation i of the command stands: "idle" (not started),
\* "dialog" (awaiting commandInput.show()), "execute" (awaiting
\* neovimClient.execute), "edit" (awaiting editor.edit), "history" (awaiting
\* addToHistory), "notice" (awaiting the engine-not-found message), or how
\* it ended.
\* ------------------------------------------------------------------------
Invocations == 1..MaxInvocations
ExecuteOutcomes ==
    {"result", "NeovimNotFoundError", "ExCommandError", "NeovimConnectionError"}
\* the commands entered in the input box
RunCommands == {"s", "d"}
\* what execute returns: the lines of the engine's buffer and one slot per
\* cursor, null or a position
ResultLines == {<< <<"x">> >>, << <<>>, <<"x">> >>}
ResultPositions == {Null, [line |-> 0, col |-> 0], [line |-> 2, col |-> 2]}
Results ==
    [lines : ResultLines,
     cursorPositions : [1..1 -> ResultPositions] \cup [1..2 -> ResultPositions]]
NoResult == [lines |-> <<>>, cursorPositions |-> <<>>]

MAX_HISTORY_ITEMS == 50
NoCommand == ""

RunInit ==
    /\ isExecuting = FALSE
    /\ inv = [i \in Invocations |-> "idle"]
    /\ got = [i \in Invocations |-> "none"]
    /\ document = << <<"x">> >>
    /\ selections = <<[line |-> 0, col |-> 0]>>
    /\ history = <<>>
    /\ lastAdded = NoCommand
    /\ reAdds = 0
    /\ lastResult = NoResult

\* the guard at the entry of runExCommand, evaluated with the flag's value f
guard(f) == IF f THEN "rejected" ELSE "dialog"

\* the catch clause taken for every outcome of execute
afterExecute_IgnoresError(o) == "edit"
\* where runExCommand goes when execute settled: on to editor.edit, or into
\* the catch clause, which awaits the notice only for NeovimNotFoundError
afterExecute(o) ==
    IF o = "result" THEN "edit"
    ELSE IF o = "NeovimNotFoundError" THEN "notice"
    ELSE "failed"

\* editBuilder.replace(fullRange, result.lines.join("\n")): the document's
\* lines afterwards; the empty text is one empty line
editReplace(ls) == IF ls = <<>> THEN << <<>> >> ELSE ls

\* .filter((pos): pos is Position => pos !== null)
nonNull(ps) == SelectSeq(ps, LAMBDA p : p # Null)

\* the selection at the position as execute returned it
clampSelection_NoClamp(pos, doc) == [line |-> pos.line, col |-> pos.col]
\* line = Math.min(pos.line, lineCount - 1); col = Math.min(pos.col, maxCol)
clampSelection(pos, doc) ==
    LET line == Min(pos.line, Len(doc) - 1)
    IN  [line |-> line, col |-> Min(pos.col, Len(doc[line + 1]))]

\* const newSelections = result.cursorPositions.filter(...).map(...)
newSelections(ps, doc) ==
    [k \in 1..Len(nonNull(ps)) |-> clampSelection(nonNull(ps)[k], doc)]

\* the assignment without its length test
assignSelections_Always(old, new) == new
\* if (newSelections.length > 0) editor.selections = newSelections
assignSelections(old, new) == IF Len(new) > 0 THEN new ELSE old

\* history.indexOf(command): the 0-based index of the first occurrence, or -1
indexOf(h, c) ==
    IF \E k \in 1..Len(h) : h[k] = c
    THEN (CHOOSE k \in 1..Len(h) : h[k] = c /\ \A j \in 1..(k - 1) : h[j] # c) - 1
    ELSE -1

\* history.splice(index, 1)
splice(h, index) == SubSeq(h, 1, index) \o SubSeq(h, index + 2, Len(h))

\* history.unshift(command)
unshift(h, c) == <<c>> \o h

\* history.pop()
pop(h) == SubSeq(h, 1, Len(h) - 1)

\* the command appended instead of put in front
addToHistory_Push(h, c) ==
    LET index == indexOf(h, c)
        removed == IF index # -1 THEN splice(h, index) ELSE h
        added == removed \o <<c>>
    IN  IF Len(added) > MAX_HISTORY_ITEMS THEN pop(added) ELSE added
\* CommandHistory.addToHistory: the list written back with globalState.update
addToHistory(h, c) ==
    LET index == indexOf(h, c)
        removed == IF index # -1 THEN splice(h, index) ELSE h
        added == unshift(removed, c)
    IN  IF Len(added) > MAX_HISTORY_ITEMS THEN pop(added) ELSE added

\* entry of runExCommand up to await commandInput.show(); invocations are
\* numbered in the order they start
Invoke(i) ==
    /\ inv[i] = "idle"
    /\ i > 1 => inv[i - 1] # "idle"
    /\ \E editor \in BOOLEAN :
        inv' = [inv EXCEPT ![i] = IF editor THEN guard(isExecuting) ELSE "noeditor"]
    /\ UNCHANGED <<isExecuting, got, editorVars>>

\* commandInput.show() resolved with a command: isExecuting = true, the
\* cursors are built and neovimClient.execute is called
DialogAccept(i) ==
    /\ inv[i] = "dialog"
    /\ isExecuting' = TRUE
    /\ inv' = [inv EXCEPT ![i] = "execute"]
    /\ UNCHANGED <<got, editorVars>>

\* commandInput.show() resolved with undefined or "": if (!command) return
DialogCancel(i) ==
    /\ inv[i] = "dialog"
    /\ inv' = [inv EXCEPT ![i] = "cancelled"]
    /\ UNCHANGED <<isExecuting, got, editorVars>>

\* neovimClient.execute returned or threw
ExecuteSettled(i) ==
    /\ inv[i] = "execute"
    /\ \E o \in ExecuteOutcomes :
        /\ got' = [got EXCEPT ![i] = o]
        /\ inv' = [inv EXCEPT ![i] = afterExecute(o)]
        /\ isExecuting' = IF afterExecute(o) = "failed" THEN FALSE ELSE isExecuting
    /\ UNCHANGED editorVars

\* await showErrorMessage(...) of the engine-not-found branch, then finally
NoticeClosed(i) ==
    /\ inv[i] = "notice"
    /\ inv' = [inv EXCEPT ![i] = "failed"]
    /\ isExecuting' = FALSE
    /\ UNCHANGED <<got, editorVars>>

\* editor.edit settled: resolved (the edit applied or refused), then the
\* selections are assigned and addToHistory is called; or it threw: catch,
\* then finally.  result is the value execute returned to this invocation.
EditSettled(i) ==
    /\ inv[i] = "edit"
    /\ \E result \in Results, settled \in {"applied", "refused", "threw"} :
        IF settled = "threw"
        THEN /\ inv' = [inv EXCEPT ![i] = "failed"]
             /\ isExecuting' = FALSE
             /\ UNCHANGED <<got, editorVars>>
        ELSE /\ document' = IF settled = "applied" THEN editReplace(result.lines)
                            ELSE document
             /\ selections' = assignSelections(selections,
                                  newSelections(result.cursorPositions, document'))
             /\ lastResult' = result
             /\ inv' = [inv EXCEPT ![i] = "history"]
             /\ UNCHANGED <<isExecuting, got, history, lastAdded>>

\* addToHistory(command) resolved or threw, then finally.  cmd is the command
\* this invocation was given in the input box.
HistorySettled(i) ==
    /\ inv[i] = "history"
    /\ \E cmd \in RunCommands, ok \in BOOLEAN :
        /\ history' = IF ok THEN addToHistory(history, cmd) ELSE history
        /\ lastAdded' = IF ok THEN cmd ELSE lastAdded
        /\ inv' = [inv EXCEPT ![i] = IF ok THEN "finished" ELSE "failed"]
    /\ isExecuting' = FALSE
    /\ UNCHANGED <<got, document, selections, lastResult>>

\* ------------------------------------------------------------------------
\* The extmarks of one cursor and their gravity.  execute sets the cursor's
\* extmark with { right_gravity: false } (client.ts 70-76).  The extmarks of
\* a cursor's selection (start of the first line, end of the last line) are
\* set by the client that takes a selection with each cursor; they are
\* described in the specification, section 4.3 step 4.
\* ------------------------------------------------------------------------
MarkerLines == {<<>>, <<"x">>, <<"x", "x">>}
NoInsert == [at |-> -1, len |-> 0]

\* the cursor's extmark set with { right_gravity: true }
cursorGravity_Right == TRUE
\* { right_gravity: false } of nvim_buf_set_extmark
cursorGravity == FALSE
selectionStartGravity == FALSE
selectionEndGravity == TRUE

Extmark(kind, col, g) == [kind |-> kind, col |-> col, right_gravity |-> g]

\* the engine inserts n characters at column at of the line
EngineInsertText(l, at, n) ==
    SubSeq(l, 1, at) \o [k \in 1..n |-> "y"] \o SubSeq(l, at + 1, Len(l))

\* an extmark after the insertion: it moves with the text to its right; at
\* the very column of the insertion it moves only with right gravity
EngineInsertMark(m, at, n) ==
    IF m.col > at \/ (m.col = at /\ m.right_gravity)
    THEN [m EXCEPT !.col = m.col + n]
    ELSE m

MarkerInit ==
    /\ mpc = "idle"
    /\ mline = <<>>
    /\ extmarks = <<>>
    /\ lastInsert = NoInsert
    /\ reported = -1

\* buffer.setLines(content, ...) with a content of one line
MarkerSetLines ==
    /\ mpc = "idle"
    /\ \E l \in MarkerLines :
        /\ mline' = l
        /\ mpc' = "set_extmark"
        /\ extmarks' = <<>>
        /\ lastInsert' = NoInsert
        /\ reported' = -1

\* nvim_buf_set_extmark at the clamped column of the cursor
CreateCursorMarker ==
    /\ mpc = "set_extmark"
    /\ \E col \in 0..3 :
        extmarks' = <<Extmark("cursor", Min(col, Len(mline)), cursorGravity)>>
    /\ mpc' = "selection"
    /\ UNCHANGED <<mline, lastInsert, reported>>

\* a cursor with a selection gets an extmark at column 0 of the selection's
\* first line and one at the end of its last line; a cursor without gets none
CreateSelectionMarkers ==
    /\ mpc = "selection"
    /\ \E withSelection \in BOOLEAN :
        extmarks' = IF withSelection
                    THEN extmarks \o <<Extmark("selection_start", 0, selectionStartGravity),
                                       Extmark("selection_end", Len(mline), selectionEndGravity)>>
                    ELSE extmarks
    /\ mpc' = "command"
    /\ UNCHANGED <<mline, lastInsert, reported>>

\* nvim.command(command) with a command that inserts text into the line, as
\* long as the line has at most MaxTextLen characters
MarkerCommand ==
    /\ mpc = "command"
    /\ Len(mline) <= MaxTextLen
    /\ \E at \in 0..Len(mline), n \in 1..2 :
        /\ mline' = EngineInsertText(mline, at, n)
        /\ extmarks' = [k \in 1..Len(extmarks) |-> EngineInsertMark(extmarks[k], at, n)]
        /\ lastInsert' = [at |-> at, len |-> n]
    /\ UNCHANGED <<mpc, reported>>

\* nvim_buf_get_extmark_by_id of the cursor's extmark, the call is over
MarkerResolve ==
    /\ mpc = "command"
    /\ reported' = extmarks[1].col
    /\ mpc' = "idle"
    /\ UNCHANGED <<mline, extmarks, lastInsert>>

\* ------------------------------------------------------------------------
\* runExCommand: the CursorInfo built for each editor selection
\* ------------------------------------------------------------------------
MaxEditorLine == 3
EditorCols == {0, 1}
EditorPositions == [line : 0..MaxEditorLine, character : EditorCols]

\* vscode.Position.isBefore
isBefore(p, q) == p.line < q.line \/ (p.line = q.line /\ p.character < q.character)

\* sel.start: the earlier of anchor and active
selStart(s) == IF isBefore(s.active, s.anchor) THEN s.active ELSE s.anchor

\* sel.end: the later of anchor and active
selEnd(s) == IF isBefore(s.active, s.anchor) THEN s.anchor ELSE s.active

\* sel.isEmpty
isEmpty(s) == s.anchor = s.active

NoCursorInfo == [line |-> -1, col |-> -1, selection |-> NoSelection]

endLine_Unadjusted(s) == selEnd(s).line

\* let endLine = sel.end.line;
\* if (sel.end.character === 0 && endLine > sel.start.line) endLine = endLine - 1
endLine(s) ==
    IF selEnd(s).character = 0 /\ selEnd(s).line > selStart(s).line
    THEN selEnd(s).line - 1
    ELSE selEnd(s).line

\* the body of editor.selections.map: info.selection stays unset (NoSelection)
\* for an empty selection
CursorInfo(s) ==
    [line |-> s.active.line,
     col |-> s.active.character,
     selection |-> IF ~isEmpty(s)
                   THEN [startLine |-> selStart(s).line, endLine |-> endLine(s)]
                   ELSE NoSelection]

CursorInit ==
    /\ editorSelection = [anchor |-> [line |-> 0, character |-> 0],
                          active |-> [line |-> 0, character |-> 0]]
    /\ info = NoCursorInfo

\* the user moves the cursor or selects text in the editor
SelectionChanged ==
    /\ \E a \in EditorPositions, b \in EditorPositions :
        editorSelection' = [anchor |-> a, active |-> b]
    /\ info' = NoCursorInfo

\* const cursors = editor.selections.map((sel) => ...), for the element sel
BuildCursorInfo ==
    /\ info' = CursorInfo(editorSelection)
    /\ UNCHANGED editorSelection

\* ------------------------------------------------------------------------
\* CommandHistory on its own: addToHistory and clearHistory
\* ------------------------------------------------------------------------
MaxReAdds == 1

\* the commands a user may enter: one more than the history can hold
HistoryCommands == {ToString(n) : n \in 1..(MAX_HISTORY_ITEMS + 1)}

\* the first of them that is not in the history
newCommand(h) ==
    LET present == {h[k] : k \in 1..Len(h)}
        missing == {n \in 1..(MAX_HISTORY_ITEMS + 1) : ToString(n) \notin present}
    IN  ToString(CHOOSE n \in missing : \A m \in missing : n <= m)

\* the entries a user picks again: the newest two and the oldest
ReAddIndexes(h) == {1, 2, Len(h)} \cap (1..Len(h))

\* CommandHistory.clearHistory: globalState.update(HISTORY_KEY, [])
clearHistory == <<>>

\* addToHistory(command) with a command that is not in the history
AddNewCommand ==
    /\ LET c == newCommand(history)
       IN  /\ history' = addToHistory(history, c)
           /\ lastAdded' = c
    /\ UNCHANGED <<isExecuting, inv, got, document, selections, lastResult, reAdds>>

\* addToHistory(command) with a command that is in the history
ReAddCommand ==
    /\ reAdds < MaxReAdds
    /\ \E k \in ReAddIndexes(history) :
        /\ history' = addToHistory(history, history[k])
        /\ lastAdded' = history[k]
    /\ reAdds' = reAdds + 1
    /\ UNCHANGED <<isExecuting, inv, got, document, selections, lastResult>>

\* the command neovimFilter.clearHistory
ClearHistory ==
    /\ history' = clearHistory
    /\ lastAdded' = NoCommand
    /\ UNCHANGED <<isExecuting, inv, got, document, selections, lastResult, reAdds>>

Init == ClientInit /\ RunInit /\ MarkerInit /\ CursorInit

Next ==
    \/ (execute /\ UNCHANGED <<runVars, markerVars, cursorVars, reAdds>>)
    \/ (executeWithSelection /\ UNCHANGED <<runVars, markerVars, cursorVars, reAdds>>)
    \/ (Spawn /\ UNCHANGED <<runVars, markerVars, cursorVars, reAdds>>)
    \/ (Attach /\ UNCHANGED <<runVars, markerVars, cursorVars, reAdds>>)
    \/ (GetBuffer /\ UNCHANGED <<runVars, markerVars, cursorVars, reAdds>>)
    \/ (SetLines /\ UNCHANGED <<runVars, markerVars, cursorVars, reAdds>>)
    \/ (CreateNamespace /\ UNCHANGED <<runVars, markerVars, cursorVars, reAdds>>)
    \/ (SetExtmark /\ UNCHANGED <<runVars, markerVars, cursorVars, reAdds>>)
    \/ (LoopGetExtmark /\ UNCHANGED <<runVars, markerVars, cursorVars, reAdds>>)
    \/ (LoopSetCursor /\ UNCHANGED <<runVars, markerVars, cursorVars, reAdds>>)
    \/ (LoopCommand /\ UNCHANGED <<runVars, markerVars, cursorVars, reAdds>>)
    \/ (MarkLt /\ UNCHANGED <<runVars, markerVars, cursorVars, reAdds>>)
    \/ (MarkGt /\ UNCHANGED <<runVars, markerVars, cursorVars, reAdds>>)
    \/ (RangeCommand /\ UNCHANGED <<runVars, markerVars, cursorVars, reAdds>>)
    \/ (GetLines /\ UNCHANGED <<runVars, markerVars, cursorVars, reAdds>>)
    \/ (ReadExtmark /\ UNCHANGED <<runVars, markerVars, cursorVars, reAdds>>)
    \/ (Return /\ UNCHANGED <<runVars, markerVars, cursorVars, reAdds>>)
    \/ (Settle /\ UNCHANGED <<runVars, markerVars, cursorVars, reAdds>>)

Spec == Init /\ [][Next]_vars

\* the command handler alone, with execute seen as one await
NextRun ==
    \/ \E i \in Invocations : Invoke(i) /\ UNCHANGED <<clientVars, markerVars, cursorVars, reAdds>>
    \/ \E i \in Invocations : DialogAccept(i) /\ UNCHANGED <<clientVars, markerVars, cursorVars, reAdds>>
    \/ \E i \in Invocations : DialogCancel(i) /\ UNCHANGED <<clientVars, markerVars, cursorVars, reAdds>>
    \/ \E i \in Invocations : ExecuteSettled(i) /\ UNCHANGED <<clientVars, markerVars, cursorVars, reAdds>>
    \/ \E i \in Invocations : NoticeClosed(i) /\ UNCHANGED <<clientVars, markerVars, cursorVars, reAdds>>
    \/ \E i \in Invocations : EditSettled(i) /\ UNCHANGED <<clientVars, markerVars, cursorVars, reAdds>>
    \/ \E i \in Invocations : HistorySettled(i) /\ UNCHANGED <<clientVars, markerVars, cursorVars, reAdds>>

SpecRun == Init /\ [][NextRun]_vars

\* the awaits of runExCommand that settle without the user: the call of
\* neovimClient.execute, editor.edit and commandHistory.addToHistory
Settles(i) ==
    /\ ExecuteSettled(i) \/ EditSettled(i) \/ HistorySettled(i)
    /\ UNCHANGED <<clientVars, markerVars, cursorVars, reAdds>>

\* runExCommand when every such await settles; the input box and the
\* engine-not-found notice wait for the user, who need not answer
SpecRunFair == SpecRun /\ \A i \in Invocations : WF_vars(Settles(i))

\* the extmarks of one cursor alone
NextMarkers ==
    \/ (MarkerSetLines /\ UNCHANGED <<clientVars, runVars, cursorVars, reAdds>>)
    \/ (CreateCursorMarker /\ UNCHANGED <<clientVars, runVars, cursorVars, reAdds>>)
    \/ (CreateSelectionMarkers /\ UNCHANGED <<clientVars, runVars, cursorVars, reAdds>>)
    \/ (MarkerCommand /\ UNCHANGED <<clientVars, runVars, cursorVars, reAdds>>)
    \/ (MarkerResolve /\ UNCHANGED <<clientVars, runVars, cursorVars, reAdds>>)

SpecMarkers == Init /\ [][NextMarkers]_vars

\* the cursors runExCommand builds from the editor's selections
NextCursors ==
    \/ (SelectionChanged /\ UNCHANGED <<clientVars, runVars, markerVars, reAdds>>)
    \/ (BuildCursorInfo /\ UNCHANGED <<clientVars, runVars, markerVars, reAdds>>)

SpecCursors == Init /\ [][NextCursors]_vars

\* the calls made on the CommandHistory
NextHistory ==
    \/ (AddNewCommand /\ UNCHANGED <<clientVars, markerVars, cursorVars>>)
    \/ (ReAddCommand /\ UNCHANGED <<clientVars, markerVars, cursorVars>>)
    \/ (ClearHistory /\ UNCHANGED <<clientVars, markerVars, cursorVars>>)

SpecHistory == Init /\ [][NextHistory]_vars


\* ------------------------------------------------------------------------
\* Reading the trace of a call
\* ------------------------------------------------------------------------
EventsOf(rpc) == SelectSeq(trace, LAMBDA e : e.rpc = rpc)
\* the requests of the try block: everything but the finally block's quit and kill
TryEvents == SelectSeq(trace, LAMBDA e : e.rpc \notin {"quit", "kill"})
Spawned == \E k \in 1..Len(trace) : trace[k].rpc = "spawn" /\ trace[k].status = "ok"
Failed == pc = "done" /\ outcome.kind = "error"
Returned == pc = "done" /\ outcome.kind = "result"
\* the executions of the user's command (not the mark commands)
IsUserCommand(e) ==
    /\ e.rpc = "nvim_command"
    /\ e.a \in {command, rangeCommand(command)}
CommandEvents == SelectSeq(trace, IsUserCommand)
LastTryEvent == TryEvents[Len(TryEvents)]

\* ------------------------------------------------------------------------
\* C1: whenever a call of execute or executeWithSelection has returned or
\* thrown, the subprocess it spawned has been killed, and no subprocess is
\* alive between calls.
\* ------------------------------------------------------------------------
C1_SubprocessKilled ==
    /\ pc \in {"done", "idle"} => running = 0
    /\ pc = "done" /\ Spawned =>
         /\ proc = "killed"
         /\ trace[Len(trace)].rpc = "kill"

\* attach threw: proc is set, nvim is still null, and the subprocess is killed
C1_Witness ==
    /\ Failed
    /\ outcome.error.name = "NeovimConnectionError"
    /\ Spawned
    /\ ~nvim
    /\ proc = "killed"


\* ------------------------------------------------------------------------
\* C2: at most one invocation of runExCommand is awaiting execute at any
\* time, whatever the interleaving of the invocations.
\* ------------------------------------------------------------------------
C2_AtMostOneExecute ==
    Cardinality({i \in Invocations : inv[i] = "execute"}) <= 1

\* ------------------------------------------------------------------------
\* C3: execute with a non-empty content and no cursor runs the command
\* exactly once, unprefixed, without moving the engine cursor, and returns
\* cursorPositions = [].
\* ------------------------------------------------------------------------
C3_EmptyCursorsRunOnce ==
    Returned /\ op = "execute" /\ content # <<>> /\ cursorPositions = <<>> =>
        /\ Len(CommandEvents) = 1
        /\ CommandEvents[1].a = command
        /\ EventsOf("nvim_win_set_cursor") = <<>>
        /\ outcome.cursorPositions = <<>>

\* ------------------------------------------------------------------------
\* C4: when the engine rejects the command, the call fails with an
\* ExCommandError that carries the command text that was executed and the
\* engine's message; nothing is requested from the engine afterwards (no
\* further command, no read-back), no result is returned and the subprocess
\* is killed.
\* ------------------------------------------------------------------------
RejectedAt(k) == IsUserCommand(trace[k]) /\ trace[k].status = "rejected"

C4_CommandFailure ==
    \A k \in 1..Len(trace) :
        pc = "done" /\ RejectedAt(k) =>
            /\ Failed
            /\ outcome.error.name = "ExCommandError"
            /\ outcome.error.command = trace[k].a
            /\ outcome.error.command =
                 (IF op = "execute" THEN command ELSE "'<,'>" \o command)
            /\ outcome.error.message = "E: engine error"
            /\ \A j \in (k + 1)..Len(trace) : trace[j].rpc \in {"quit", "kill"}
            /\ EventsOf("nvim_buf_get_lines") = <<>>
            /\ proc = "killed"

\* the command of the first cursor ran, the command of the second was rejected
C4_Witness ==
    /\ Failed
    /\ op = "execute"
    /\ Len(CommandEvents) = 2
    /\ CommandEvents[1].status = "ok"
    /\ CommandEvents[2].status = "rejected"
    /\ outcome.error.name = "ExCommandError"

\* ------------------------------------------------------------------------
\* C5: a failed call fails with one of three kinds: engine-not-found exactly
\* when path resolution failed (nothing was spawned), command-execution
\* failure exactly when the engine rejected the executed command, connection
\* failure in every other case.
\* ------------------------------------------------------------------------
C5_ErrorTaxonomy ==
    Failed =>
        /\ outcome.error.name \in
             {"NeovimNotFoundError", "ExCommandError", "NeovimConnectionError"}
        /\ outcome.error.name = "NeovimNotFoundError" <=> trace = <<>>
        /\ outcome.error.name = "ExCommandError" <=>
             /\ TryEvents # <<>>
             /\ IsUserCommand(LastTryEvent)
             /\ LastTryEvent.status = "rejected"

\* ------------------------------------------------------------------------
\* C6: a returned result has one slot per input cursor, slot i holding the
\* final position of the extmark of cursor i, or null when that extmark is
\* orphaned or its read-back raised an RPC error.
\* ------------------------------------------------------------------------
\* the read-back request of slot i, once every slot is read
ReadBack(i) == trace[Len(trace) - Len(markIds) + i]

C6_OnePositionPerCursor ==
    /\ pc = "return" =>
         /\ Len(newPositions) = Len(cursorPositions)
         /\ \A i \in 1..Len(cursorPositions) :
              /\ ReadBack(i).rpc = "nvim_buf_get_extmark_by_id"
              /\ ReadBack(i).a = markIds[i]
              /\ IF marks[i] = <<>> \/ ReadBack(i).status = "transport"
                 THEN newPositions[i] = Null
                 ELSE newPositions[i] = [line |-> marks[i][1], col |-> marks[i][2]]
    /\ Returned =>
         /\ outcome.cursorPositions = newPositions
         /\ Len(outcome.cursorPositions) = Len(cursorPositions)

\* a result with a slot of an orphaned extmark and a slot with a position
C6_Witness ==
    /\ Returned
    /\ \A k \in 1..Len(trace) : trace[k].status = "ok"
    /\ \E i, j \in 1..Len(cursorPositions) :
         /\ outcome.cursorPositions[i] = Null
         /\ outcome.cursorPositions[j] # Null

\* ------------------------------------------------------------------------
\* C7: an extmark orphaned by a command does not abort the call: with no
\* RPC failure and no rejected command, execute returns a result with null
\* at the slots of the orphaned extmarks and a position at the others.
\* ------------------------------------------------------------------------
Orphaned(e) == e.rpc = "nvim_buf_get_extmark_by_id" /\ e.status = "ok" /\ e.b = <<>>

C7_OrphanDoesNotAbort ==
    /\ pc = "done"
    /\ op = "execute"
    /\ \E k \in 1..Len(trace) : Orphaned(trace[k])
    /\ \A k \in 1..Len(TryEvents) : TryEvents[k].status # "transport"
    /\ \A k \in 1..Len(trace) : ~RejectedAt(k)
    => /\ Returned
       /\ \A i \in 1..Len(cursorPositions) :
            LET e == TryEvents[Len(TryEvents) - Len(cursorPositions) + i]
            IN  outcome.cursorPositions[i] =
                  (IF e.b = <<>> THEN Null ELSE [line |-> e.b[1], col |-> e.b[2]])


\* ------------------------------------------------------------------------
\* C8: the extmark of input cursor (line, col) is requested at line
\* min(line, content.length - 1) and column min(col, length of that line);
\* a line past the content gives the last line, a column past the line gives
\* the line's length, each whatever the other coordinate is.
\* ------------------------------------------------------------------------
ExtmarkEvents == EventsOf("nvim_buf_set_extmark")
LineLength(c, k) == IF k \in 0..(Len(c) - 1) THEN Len(c[k + 1]) ELSE 0

C8_MarkerClamped ==
    \A i \in 1..Len(ExtmarkEvents) :
        LET pos == cursorPositions[i]
            e == ExtmarkEvents[i]
        IN  /\ e.a = (IF pos.line <= Len(content) - 1 THEN pos.line ELSE Len(content) - 1)
            /\ e.b = (IF pos.col <= LineLength(content, e.a)
                      THEN pos.col ELSE LineLength(content, e.a))
            /\ pos.line >= Len(content) /\ content # <<>> => e.a = Len(content) - 1
            /\ content # <<>> /\ pos.col > Len(content[e.a + 1]) =>
                 e.b = Len(content[e.a + 1])

\* a cursor past the last line and past the end of that line, which holds
\* text: both coordinates are clamped and the engine sets the extmark
C8_Witness ==
    \E i \in 1..Len(ExtmarkEvents) :
        /\ cursorPositions[i].line >= Len(content)
        /\ ExtmarkEvents[i].status = "ok"
        /\ ExtmarkEvents[i].a = Len(content) - 1
        /\ ExtmarkEvents[i].b = 1
        /\ cursorPositions[i].col > 1

\* ------------------------------------------------------------------------
\* C9: every position handed to the engine for an extmark lies in the
\* buffer: 0 <= line <= lineCount - 1 and 0 <= col <= length of that line;
\* with an empty content every extmark is requested at line 0, column 0.
\* ------------------------------------------------------------------------
C9_PositionsInRange ==
    \A i \in 1..Len(ExtmarkEvents) :
        LET e == ExtmarkEvents[i]
            b == EngineSetLines(content)
        IN  /\ 0 <= e.a
            /\ e.a <= Len(b) - 1
            /\ 0 <= e.b
            /\ e.b <= LineLength(b, e.a)
            /\ content = <<>> => e.a = 0 /\ e.b = 0

\* ------------------------------------------------------------------------
\* C10: executeWithSelection sets the mark < at line startLine + 1 and the
\* mark > at line endLine + 1, then executes the command prefixed with
\* '<,'>, which the engine runs on the lines startLine + 1 to endLine + 1;
\* execute runs the raw command, which the engine runs without a range.
\* ------------------------------------------------------------------------
NvimCommands == EventsOf("nvim_command")

NoTransportFailure == \A k \in 1..Len(TryEvents) : TryEvents[k].status # "transport"
\* the clamped position of input cursor i, as a Position
ClampedPosition(i) ==
    [line |-> clampedLine(cursorPositions[i], content),
     col |-> clampedCol(cursorPositions[i], content)]
TwoCursorsOnMatches ==
    /\ op = "execute"
    /\ command = "s"
    /\ Len(cursorPositions) = 2
    /\ Len(content) >= 2
    /\ ClampedPosition(1).line # ClampedPosition(2).line
    /\ \A i \in 1..2 : HasX(content[ClampedPosition(i).line + 1])

C11_MultiCursorIndependence ==
    pc = "done" /\ TwoCursorsOnMatches /\ Spawned /\ NoTransportFailure =>
        /\ Returned
        /\ Len(outcome.lines) = Len(content)
        /\ \A k \in 1..Len(content) :
             outcome.lines[k] =
               (IF \E i \in 1..2 : ClampedPosition(i).line + 1 = k
                THEN Subst(content[k]) ELSE content[k])
        /\ \A i \in 1..2 :
             /\ outcome.lines[ClampedPosition(i).line + 1] # content[ClampedPosition(i).line + 1]
             /\ outcome.cursorPositions[i] = ClampedPosition(i)
        /\ outcome.cursorPositions[1].line # outcome.cursorPositions[2].line

\* the second line's cursor comes first in the input and first in the result
C11_Witness ==
    /\ Returned
    /\ TwoCursorsOnMatches
    /\ NoTransportFailure
    /\ cursorPositions[1].line = 1
    /\ cursorPositions[2].line = 0
    /\ outcome.lines = << <<"y">>, <<"y">> >>
    /\ outcome.cursorPositions[1].line = 1
    /\ outcome.cursorPositions[2].line = 0

\* ------------------------------------------------------------------------
\* C12: round trip: execute with the command that changes nothing, the
\* engine found and no RPC failing, returns lines equal to content and, at
\* every slot i, the clamped position of input cursor i.
\* ------------------------------------------------------------------------
C12_RoundTrip ==
    pc = "done" /\ op = "execute" /\ command = "noop" /\ Spawned /\ NoTransportFailure =>
        /\ Returned
        /\ outcome.lines = content
        /\ Len(outcome.cursorPositions) = Len(cursorPositions)
        /\ \A i \in 1..Len(cursorPositions) :
             outcome.cursorPositions[i] = ClampedPosition(i)

\* ------------------------------------------------------------------------
\* C13: an invocation of runExCommand whose call of execute failed, with
\* whatever kind of error, goes through the catch clause only: none of its
\* steps replaces the document's text, assigns the editor's selections or
\* adds to the command history.
\* ------------------------------------------------------------------------
C13_FailureAppliesNothing ==
    [][\A i \in Invocations :
         got'[i] \in ExecuteOutcomes \ {"result"} /\ inv'[i] # inv[i] =>
            /\ inv'[i] \in {"notice", "failed"}
            /\ document' = document
            /\ selections' = selections
            /\ history' = history
            /\ lastResult' = lastResult]_vars

\* execute failed with a command failure in one invocation, after an earlier
\* invocation had changed the document and the history
C13_Witness ==
    \E i \in Invocations :
        /\ got[i] = "ExCommandError"
        /\ inv[i] = "failed"
        /\ history # <<>>
        /\ document # << <<"x">> >>


\* ------------------------------------------------------------------------
\* C14: when the engine path is not resolved the call fails with
\* NeovimNotFoundError before anything is spawned: no request is issued, no
\* subprocess exists and no client is attached; this error arises in no
\* other way.
\* ------------------------------------------------------------------------
C14_NotFoundBeforeSpawn ==
    /\ pc # "idle" /\ nvimPath = "null" =>
         /\ Failed
         /\ outcome.error = NeovimNotFoundError
    /\ Failed /\ outcome.error.name = "NeovimNotFoundError" =>
         /\ nvimPath = "null"
         /\ trace = <<>>
         /\ proc = "null"
         /\ ~nvim
         /\ running = 0
         /\ buf = EmptyBuffer /\ marks = <<>>

\* a call with cursors and a command that failed at path resolution
C14_Witness ==
    /\ Failed
    /\ outcome.error.name = "NeovimNotFoundError"
    /\ cursorPositions # <<>>
    /\ command = "d"
    /\ trace = <<>>
    /\ proc = "null"

CountBefore(rpc, j) ==
    Cardinality({i \in 1..(j - 1) : trace[i].rpc = rpc /\ trace[i].status = "ok"})

C16_RpcOrder ==
    op = "execute" /\ trace # <<>> =>
        LET te == TryEvents
            j == Len(te)
            e == te[j]
            read == CountBefore("nvim_buf_get_lines", j)
        IN  /\ j > 1 /\ read = 0 => te[j - 1].status = "ok"
            /\ e.rpc = "nvim_buf_set_extmark" =>
                 /\ CountBefore("nvim_buf_set_lines", j) = 1
                 /\ CountBefore("nvim_win_set_cursor", j) = 0
                 /\ CountBefore("nvim_command", j) = 0
                 /\ CountBefore("nvim_buf_get_extmark_by_id", j) = 0
            /\ e.rpc \in {"nvim_win_set_cursor", "nvim_command"} =>
                 /\ CountBefore("nvim_buf_set_extmark", j) = Len(cursorPositions)
                 /\ read = 0
            /\ e.rpc = "nvim_win_set_cursor" =>
                 /\ te[j - 1].rpc = "nvim_buf_get_extmark_by_id"
                 /\ te[j - 1].a = markIds[CountBefore("nvim_command", j) + 1]
            /\ e.rpc = "nvim_command" =>
                 /\ te[j - 1].rpc = "nvim_win_set_cursor"
                 /\ CountBefore("nvim_win_set_cursor", j) =
                      CountBefore("nvim_command", j) + 1
            /\ e.rpc = "nvim_buf_get_lines" =>
                 /\ CountBefore("nvim_command", j) = Len(cursorPositions)
                 /\ read = 0
            /\ read = 1 => e.rpc = "nvim_buf_get_extmark_by_id"

\* a call with two cursors that went through every step and returned
C16_Witness ==
    /\ Returned
    /\ op = "execute"
    /\ Len(cursorPositions) = 2
    /\ CountBefore("nvim_command", Len(trace)) = 2
    /\ CountBefore("nvim_buf_get_extmark_by_id", Len(trace)) = 4
    /\ CountBefore("nvim_buf_get_lines", Len(trace)) = 1

\* ------------------------------------------------------------------------
\* C17: in the per-cursor loop of execute the command of cursor i runs with
\* the engine cursor at (line + 1, col) of the position the extmark of
\* cursor i has at that moment, after the commands of the earlier cursors,
\* and not at the position the cursor was given at.
\* ------------------------------------------------------------------------
C17_CursorAtCurrentExtmark ==
    /\ pc = "command" =>
         /\ Len(marks[markIds[idx]]) = 2
         /\ extmarkPos = marks[markIds[idx]]
         /\ cur = marks[markIds[idx]][1] + 1
         /\ LastTryEvent.rpc = "nvim_win_set_cursor"
         /\ LastTryEvent.a = <<marks[markIds[idx]][1] + 1, marks[markIds[idx]][2]>>
    /\ pc = "done" /\ op = "execute" =>
         LET te == TryEvents
         IN  \A j \in 1..Len(te) :
               te[j].rpc = "nvim_command" =>
                   /\ te[j - 2].rpc = "nvim_buf_get_extmark_by_id"
                   /\ te[j - 2].a = markIds[CountBefore("nvim_command", j) + 1]
                   /\ Len(te[j - 2].b) = 2
                   /\ te[j - 1].a = <<te[j - 2].b[1] + 1, te[j - 2].b[2]>>
                   /\ te[j].a # "g" =>
                        te[j].b = <<te[j - 2].b[1] + 1, te[j - 2].b[1] + 1>>

\* the first cursor's :d deleted the line above the second cursor: the
\* second command runs on row 1, not on row 2 where the cursor was given
C17_Witness ==
    /\ pc = "command"
    /\ idx = 2
    /\ command = "d"
    /\ ClampedPosition(2).line = 1
    /\ extmarkPos = <<0, 0>>
    /\ cur = 1
    /\ LastTryEvent.a = <<1, 0>>

\* ------------------------------------------------------------------------
\* C18: teardown requests the quit on the client first, when one was
\* attached, and kills the subprocess after it; a quit that raises an error
\* prevents neither the kill nor changes what the call finishes with: the
\* result when the try block completed, the error of the try block
\* otherwise.
\* ------------------------------------------------------------------------
Attached == \E k \in 1..Len(trace) : trace[k].rpc = "attach" /\ trace[k].status = "ok"
QuitThrew == \E k \in 1..Len(trace) : trace[k].rpc = "quit" /\ trace[k].status = "transport"
\* the try block reached its return statement
TryCompleted ==
    /\ TryEvents # <<>>
    /\ \/ LastTryEvent.rpc = "nvim_buf_get_lines" /\ LastTryEvent.status = "ok"
       \/ /\ LastTryEvent.rpc = "nvim_buf_get_extmark_by_id"
          /\ CountBefore("nvim_buf_get_lines", Len(TryEvents)) = 1

C18_QuitThenKill ==
    pc = "done" /\ Spawned =>
        /\ trace[Len(trace)].rpc = "kill"
        /\ proc = "killed"
        /\ Len(EventsOf("kill")) = 1
        /\ Attached <=> trace[Len(trace) - 1].rpc = "quit"
        /\ Len(EventsOf("quit")) = (IF Attached THEN 1 ELSE 0)
        /\ Returned <=> TryCompleted
        /\ Returned => outcome.lines = lines /\ outcome.cursorPositions = newPositions
        /\ Failed =>
             /\ LastTryEvent.status # "ok"
             /\ outcome.error.message = RpcError(LastTryEvent.status).message

\* quit raised an error after a command the engine rejected: the subprocess
\* is killed and the call fails with the error of the command
C18_Witness ==
    /\ Failed
    /\ QuitThrew
    /\ proc = "killed"
    /\ trace[Len(trace)].rpc = "kill"
    /\ outcome.error.name = "ExCommandError"
    /\ outcome.error.message = "E: engine error"
\* ------------------------------------------------------------------------
\* C19: when editor.edit has resolved after a successful execute, the
\* selections assigned are made of the non-null cursorPositions of the
\* result, one selection each, in their order; when every slot is null the
\* editor's selections are left as they were.
\* ------------------------------------------------------------------------
\* invocation i goes from awaiting editor.edit on to addToHistory
EditResolved(i) == inv[i] = "edit" /\ inv'[i] = "history"

C19_NonNullSelections ==
    [][\A i \in Invocations :
         EditResolved(i) =>
            LET ps == lastResult'.cursorPositions
                kept == SelectSeq(ps, LAMBDA p : p # Null)
            IN  IF \A k \in 1..Len(ps) : ps[k] = Null
                THEN selections' = selections
                ELSE /\ Len(selections') = Len(kept)
                     /\ Len(selections') =
                          Cardinality({k \in 1..Len(ps) : ps[k] # Null})
                     /\ \A k \in 1..Len(kept) :
                          selections'[k] = clampSelection(kept[k], document')]_vars

\* a result with a null slot before a position: one selection is assigned
C19_Witness ==
    /\ \E i \in Invocations : inv[i] = "history"
    /\ lastResult.cursorPositions = <<Null, [line |-> 2, col |-> 2]>>
    /\ lastResult.lines = document
    /\ Len(selections) = 1

\* ------------------------------------------------------------------------
\* C20: every selection assigned after a successful execute lies in the
\* document as it is after the edit: its line is min(pos.line, lineCount - 1)
\* and its column min(pos.col, length of that line), so 0 <= line < lineCount
\* and 0 <= col <= length of the line.
\* ------------------------------------------------------------------------
C20_SelectionsInDocument ==
    [][\A i \in Invocations :
         EditResolved(i) /\ nonNull(lastResult'.cursorPositions) # <<>> =>
            \A k \in 1..Len(selections') :
                LET pos == nonNull(lastResult'.cursorPositions)[k]
                    sel == selections'[k]
                    lineCount == Len(document')
                IN  /\ sel.line = (IF pos.line <= lineCount - 1 THEN pos.line
                                   ELSE lineCount - 1)
                    /\ 0 <= sel.line /\ sel.line < lineCount
                    /\ sel.col = (IF pos.col <= Len(document'[sel.line + 1])
                                  THEN pos.col ELSE Len(document'[sel.line + 1]))
                    /\ 0 <= sel.col /\ sel.col <= Len(document'[sel.line + 1])]_vars

\* the position (2, 2) returned with a document of two lines: the selection
\* is clamped to the last line and to its length
C20_Witness ==
    /\ \E i \in Invocations : inv[i] = "history"
    /\ document = << <<>>, <<"x">> >>
    /\ lastResult.lines = document
    /\ lastResult.cursorPositions = <<[line |-> 2, col |-> 2]>>
    /\ selections = <<[line |-> 1, col |-> 1]>>

\* C21: the CursorInfo built for a non-empty editor selection has a range whose
\* startLine is the selection's start line and whose endLine is the selection's
\* end line, one less exactly when the selection ends at column 0 of a line
\* after its start line; such a range has startLine <= endLine; the CursorInfo
\* built for an empty selection has no range.
C21_SelectionRangeBuilt ==
    info # NoCursorInfo =>
        LET s == editorSelection
            first == IF isBefore(s.active, s.anchor) THEN s.active ELSE s.anchor
            last == IF isBefore(s.active, s.anchor) THEN s.anchor ELSE s.active
            atLineStart == last.character = 0 /\ last.line > first.line
        IN  IF s.anchor = s.active
            THEN info.selection = NoSelection
            ELSE /\ info.selection.startLine = first.line
                 /\ info.selection.endLine = last.line - (IF atLineStart THEN 1 ELSE 0)
                 /\ info.selection.startLine <= info.selection.endLine

\* a CursorInfo was built for a selection that ends at column 0 of a later line
C21_Witness ==
    /\ info # NoCursorInfo
    /\ ~isEmpty(editorSelection)
    /\ selEnd(editorSelection).character = 0
    /\ selEnd(editorSelection).line > selStart(editorSelection).line
    /\ info.selection.endLine = selEnd(editorSelection).line - 1

\* C22: once an invocation of runExCommand has set isExecuting, the flag does
\* not stay true: provided the call of execute terminates, the flag is false
\* again at some later point, so that a later invocation can be accepted.
C22_FlagReleased == isExecuting ~> ~isExecuting

\* C23: when execute returns a result for N >= 1 cursors, the command was
\* executed exactly N times, each time accepted: the k-th execution follows
\* the resolution of the extmark of the k-th cursor and addresses the line
\* that extmark is on, also when several cursors are on the same line.
C23_OncePerCursor ==
    (Returned /\ op = "execute" /\ Len(cursorPositions) >= 1) =>
        LET ce == CommandEvents
            ge == EventsOf("nvim_buf_get_extmark_by_id")
            n == Len(cursorPositions)
        IN  /\ Len(ce) = n
            /\ Len(markIds) = n
            /\ Len(ge) = 2 * n
            /\ \A k \in 1..n :
                  /\ ce[k].status = "ok"
                  /\ ge[k].a = markIds[k]
                  /\ \A j \in 1..n : markIds[j] = markIds[k] => j = k
                  /\ command # "g" => ce[k].b = <<ge[k].b[1] + 1, ge[k].b[1] + 1>>

\* execute returned for two cursors given on the same line, and the command
\* ran twice on that line
C23_Witness ==
    /\ Returned
    /\ op = "execute"
    /\ Len(cursorPositions) = 2
    /\ ClampedPosition(1).line = ClampedPosition(2).line
    /\ Len(CommandEvents) = 2
    /\ command # "g"
    /\ CommandEvents[1].b = CommandEvents[2].b

\* C24: after every addToHistory or clearHistory call the stored history has
\* no command twice and at most MAX_HISTORY_ITEMS entries, and the command
\* added last is its first entry; an addToHistory of a command already in the
\* history leaves the other entries as they were, in the same order, behind
\* it, and an addToHistory of a new command leaves the earlier entries in
\* their order behind it, without the oldest when the history was full.
C24_HistoryKept ==
    [][/\ Cardinality({history'[k] : k \in 1..Len(history')}) = Len(history')
       /\ Len(history') <= MAX_HISTORY_ITEMS
       /\ lastAdded' # NoCommand =>
             /\ history' # <<>>
             /\ history'[1] = lastAdded'
             /\ IF \E k \in 1..Len(history) : history[k] = lastAdded'
                THEN Tail(history') = SelectSeq(history, LAMBDA x : x # lastAdded')
                ELSE /\ Tail(history') = SubSeq(history, 1, Len(history') - 1)
                     /\ Len(history') = Min(Len(history) + 1, MAX_HISTORY_ITEMS)
       /\ lastAdded' = NoCommand => history' = <<>>]_vars

\* the history is full, its oldest command was dropped for a new one, and a
\* command was added again before
C24_Witness ==
    /\ Len(history) = MAX_HISTORY_ITEMS
    /\ lastAdded = ToString(MAX_HISTORY_ITEMS + 1)
    /\ history[1] = lastAdded
    /\ \A k \in 1..Len(history) : history[k] # "1"
    /\ reAdds >= 1

====
